---- MODULE Spec2Model ----
(***************************************************************************)
(* A model of rufile (ruke): the recipe registry (Rukefile), its TOML      *)
(* persistence, the BinaryTree recipe index, run_recipe in its two         *)
(* variants (src/tasks/mod.rs and src/tasks.rs) and the add command.       *)
(*                                                                         *)
(* Strings are sequences of one-character strings, so that splitting,      *)
(* quoting and lexicographic comparison are computed, not assumed.         *)
(* Option<T> is a sequence of length 0 (None) or 1 (Some(v)).              *)
(***************************************************************************)
EXTENDS Integers, Sequences, FiniteSets, TLC

VARIABLES
    tasks,      \* Rukefile.tasks: the registry in memory
    prev,       \* history: the registry before the last operation
    file,       \* the content of the rukefile on disk
    saved,      \* history: Some(registry) last written whole by update_rukefile
    nodes,      \* the heap of Node cells of the BinaryTree (Rc<RefCell<Node>>)
    root,       \* BinaryTree.root: 0 (None) or the index of a cell
    inserted,   \* history: the recipes given to insert, in call order
    found,      \* history: the last search since the last insert, as Some(<<name, result>>)
    out         \* what the last operation did (its inputs and its effects)

vars == <<tasks, prev, file, saved, nodes, root, inserted, found, out>>

----------------------------------------------------------------------------
(* Option<T> *)

None == <<>>

Some(v) == <<v>>

----------------------------------------------------------------------------
(* Bounds *)

MaxCmdLen == 3

MaxArgs == 2

MaxRunTasks == 2

RangeOf(s) == {s[i] : i \in 1..Len(s)}

SeqsUpTo(S, n) == UNION {[1..k -> S] : k \in 0..n}

Names == {<<"x">>, <<"y">>}

QueryNames == Names \cup {<<"z">>}

CmdChars == {"a", " "}

ArgTokens == {<<"c">>, <<"d">>}

Commands == SeqsUpTo(CmdChars, MaxCmdLen) \ {<<>>}

ArgChoices == {None} \cup {Some(a) : a \in SeqsUpTo(ArgTokens, MaxArgs)}

RunRecipes == [name : Names, command : Commands, arguments : ArgChoices]

RunRegistries == SeqsUpTo(RunRecipes, MaxRunTasks)

----------------------------------------------------------------------------
(* Rukefile::find_recipe: the first recipe of the sequence with that name *)

RECURSIVE FindFrom(_, _, _)
FindFrom(ts, name, i) ==
    IF i > Len(ts) THEN None
    ELSE IF ts[i].name = name THEN Some(ts[i])
    ELSE FindFrom(ts, name, i + 1)

find_recipe(ts, name) == FindFrom(ts, name, 1)

----------------------------------------------------------------------------
(* str::split(' '): one token more than there are spaces, empty tokens kept *)

RECURSIVE SplitFrom(_, _, _)
SplitFrom(s, i, cur) ==
    IF i > Len(s) THEN <<cur>>
    ELSE IF s[i] = " " THEN <<cur>> \o SplitFrom(s, i + 1, <<>>)
    ELSE SplitFrom(s, i + 1, Append(cur, s[i]))

Split(s) == SplitFrom(s, 1, <<>>)

(* let arguments = match recipe.arguments { Some(mut arguments) => { push each
   positional argument; arguments }, None => positional_arguments.collect() } *)
ComposeArguments(recipe) ==
    LET command == Split(recipe.command)
        positional_arguments == Tail(command)
    IN  IF recipe.arguments # None
        THEN recipe.arguments[1] \o positional_arguments
        ELSE positional_arguments

(* What Command::new(program).args(..).output() can give: an empty program
   name cannot be spawned; otherwise the environment decides. *)
SpawnOutcomes(program) ==
    IF program = <<>> THEN {"spawn_failed"}
    ELSE {"spawn_failed", "success", "failure"}

Idle ==
    [op |-> "init", name |-> <<>>, quiet |-> FALSE, status |-> "none",
     success |-> FALSE, spawned |-> FALSE, panicked |-> FALSE,
     program |-> <<>>, argv |-> <<>>, recipe |-> None,
     stdoutEmitted |-> FALSE, stderrEmitted |-> FALSE, missReported |-> FALSE,
     command |-> <<>>, added |-> FALSE, updateOk |-> FALSE,
     successPrinted |-> FALSE, diagnostic |-> "none"]

(* The part of run_recipe after the lookup, shared by both variants up to the
   reporting policy, which is the parameter stdoutIf/stderrIf. *)
Execute(base, recipe, outcome, stdoutIf, stderrIf) ==
    LET command == Split(recipe.command)
        ran == outcome # "spawn_failed"
        ok == outcome = "success"
    IN  [base EXCEPT
            !.recipe = Some(recipe),
            !.program = command[1],
            !.argv = ComposeArguments(recipe),
            !.status = IF ran THEN "exited" ELSE "panic",
            !.panicked = ~ran,
            !.spawned = ran,
            !.success = ok,
            !.stdoutEmitted = ran /\ stdoutIf,
            !.stderrEmitted = ran /\ stderrIf]

(* One process runs one recipe (the run command calls run_recipe once and
   exits), hence the guard out.op = "init" of both variants.  On a miss no
   child is spawned, so the outcome input is not read: it is pinned to one
   value there. *)

(* src/tasks/mod.rs run_recipe: a miss is reported and returns; stderr is
   printed unless (success and not quiet); stdout is printed always. *)
RunRecipe(name, quiet, outcome) ==
    LET base == [Idle EXCEPT !.op = "run_mod", !.name = name, !.quiet = quiet]
        r == find_recipe(tasks, name)
    IN  /\ out.op = "init"
        /\ IF r = None
           THEN /\ outcome = "spawn_failed"
                /\ out' = [base EXCEPT !.status = "miss", !.missReported = TRUE]
           ELSE /\ outcome \in SpawnOutcomes(Split(r[1].command)[1])
                /\ LET is_success_and_not_quiet == (outcome = "success") /\ ~quiet
                   IN  out' = Execute(base, r[1], outcome, TRUE,
                                      ~is_success_and_not_quiet)
        /\ prev' = tasks
        /\ UNCHANGED <<tasks, file, saved, nodes, root, inserted, found>>

(* src/tasks.rs run_recipe: find_recipe(name).expect(..) panics on a miss;
   stdout is printed if (success and not quiet), else stderr. *)
RunRecipeLegacy(name, quiet, outcome) ==
    LET base == [Idle EXCEPT !.op = "run_legacy", !.name = name, !.quiet = quiet]
        r == find_recipe(tasks, name)
    IN  /\ out.op = "init"
        /\ IF r = None
           THEN /\ outcome = "spawn_failed"
                /\ out' = [base EXCEPT !.status = "panic", !.panicked = TRUE]
           ELSE /\ outcome \in SpawnOutcomes(Split(r[1].command)[1])
                /\ LET shown == (outcome = "success") /\ ~quiet
                   IN  out' = Execute(base, r[1], outcome, shown, ~shown)
        /\ prev' = tasks
        /\ UNCHANGED <<tasks, file, saved, nodes, root, inserted, found>>

Outcomes == {"spawn_failed", "success", "failure"}

InitRun ==
    /\ tasks \in RunRegistries
    /\ prev = tasks
    /\ file = None
    /\ saved = None
    /\ nodes = <<>>
    /\ root = 0
    /\ inserted = <<>>
    /\ found = None
    /\ out = Idle

RunMod == \E n \in QueryNames, q \in BOOLEAN, o \in Outcomes : RunRecipe(n, q, o)

RunLegacy == \E n \in QueryNames, q \in BOOLEAN, o \in Outcomes : RunRecipeLegacy(n, q, o)

NextRun == RunMod \/ RunLegacy

SpecRun == InitRun /\ [][NextRun]_vars

----------------------------------------------------------------------------
(* Claims about run_recipe *)

Ran == out.op \in {"run_mod", "run_legacy"}

InlineTokens(recipe) == Tail(Split(recipe.command))

ExtraArguments(recipe) == IF recipe.arguments = None THEN <<>> ELSE recipe.arguments[1]

\* C1: the argument vector passed to the child is the inline tokens t1..tN
\* followed by recipe.arguments (or nothing when arguments is absent).
C1_InlineThenArguments ==
    (Ran /\ out.spawned) =>
        out.argv = InlineTokens(out.recipe[1]) \o ExtraArguments(out.recipe[1])

\* C2: captured stdout is emitted iff the child succeeded and quiet is false.
C2_StdoutIffSuccessNotQuiet ==
    (Ran /\ out.status = "exited") =>
        (out.stdoutEmitted <=> (out.success /\ ~out.quiet))

\* C3: captured stderr is emitted iff the child did not exit successfully.
C3_StderrIffFailure ==
    (Ran /\ out.status = "exited") => (out.stderrEmitted <=> ~out.success)

\* C4: a lookup miss is recoverable in both variants: reported, no child
\* spawned, no panic.
C4_MissIsRecoverable ==
    (Ran /\ \A i \in 1..Len(tasks) : tasks[i].name # out.name) =>
        /\ find_recipe(tasks, out.name) = None
        /\ out.status = "miss"
        /\ out.missReported
        /\ ~out.spawned
        /\ ~out.panicked

----------------------------------------------------------------------------
(* The BinaryTree index (src/tasks/mod.rs) *)

MaxInserts == 4

TreeNames == {<<"a">>, <<"a", "b">>, <<"b">>}

AbsentName == <<"a", "a">>

SearchNames == TreeNames \cup {AbsentName}

(* Two recipes of one name differ in command and arguments, so that which of
   two duplicates a search returns is visible. *)
TreeRecipes ==
    [name : TreeNames, command : {<<"a">>}, arguments : {None}]
    \cup [name : TreeNames, command : {<<"a", " ", "a">>}, arguments : {Some(<<<<"c">>>>)}]

(* The byte of a character: Rust compares Strings bytewise. *)
CharCode(c) ==
    CASE c = " " -> 32
      [] c = "a" -> 97
      [] c = "b" -> 98
      [] c = "c" -> 99
      [] c = "d" -> 100
      [] c = "x" -> 120
      [] c = "y" -> 121
      [] c = "z" -> 122

(* String's `<`: lexicographic, a proper prefix is less *)
RECURSIVE StrLessFrom(_, _, _)
StrLessFrom(s, t, i) ==
    IF i > Len(t) THEN FALSE
    ELSE IF i > Len(s) THEN TRUE
    ELSE IF CharCode(s[i]) < CharCode(t[i]) THEN TRUE
    ELSE IF CharCode(s[i]) > CharCode(t[i]) THEN FALSE
    ELSE StrLessFrom(s, t, i + 1)

StrLess(s, t) == StrLessFrom(s, t, 1)

(* Node::new *)
NewNode(recipe) == [recipe |-> recipe, left |-> 0, right |-> 0]

(* A wrong insert_node: an equal name descends left (<= for <). *)
RECURSIVE insert_node_le(_, _, _)
insert_node_le(heap, node, recipe) ==
    IF node = 0 THEN <<Append(heap, NewNode(recipe)), Len(heap) + 1>>
    ELSE IF ~StrLess(heap[node].recipe.name, recipe.name)
         THEN LET r == insert_node_le(heap, heap[node].left, recipe)
              IN  <<[r[1] EXCEPT ![node].left = r[2]], node>>
         ELSE LET r == insert_node_le(heap, heap[node].right, recipe)
              IN  <<[r[1] EXCEPT ![node].right = r[2]], node>>

(* A wrong insert_node: an equal name replaces the recipe of the node it
   meets, as a map's insert would. *)
RECURSIVE insert_node_replace(_, _, _)
insert_node_replace(heap, node, recipe) ==
    IF node = 0 THEN <<Append(heap, NewNode(recipe)), Len(heap) + 1>>
    ELSE IF heap[node].recipe.name = recipe.name
         THEN <<[heap EXCEPT ![node].recipe = recipe], node>>
    ELSE IF StrLess(recipe.name, heap[node].recipe.name)
         THEN LET r == insert_node_replace(heap, heap[node].left, recipe)
              IN  <<[r[1] EXCEPT ![node].left = r[2]], node>>
         ELSE LET r == insert_node_replace(heap, heap[node].right, recipe)
              IN  <<[r[1] EXCEPT ![node].right = r[2]], node>>

(* BinaryTree::insert_node: <<the heap afterwards, the Option<Rc<..>> returned>>.
   None allocates a cell; Some(n) recurses into n.left (recipe.name < n's name)
   or n.right, stores the result in that link and returns n. *)
RECURSIVE insert_node(_, _, _)
insert_node(heap, node, recipe) ==
    IF node = 0 THEN <<Append(heap, NewNode(recipe)), Len(heap) + 1>>
    ELSE IF StrLess(recipe.name, heap[node].recipe.name)
         THEN LET r == insert_node(heap, heap[node].left, recipe)
              IN  <<[r[1] EXCEPT ![node].left = r[2]], node>>
         ELSE LET r == insert_node(heap, heap[node].right, recipe)
              IN  <<[r[1] EXCEPT ![node].right = r[2]], node>>

(* BinaryTree::insert on a tree <<heap, root>>: self.root = insert_node(root, recipe) *)
insert(tree, recipe) == insert_node(tree[1], tree[2], recipe)

(* A wrong search_node: the directions are swapped. *)
RECURSIVE search_node_swapped(_, _, _)
search_node_swapped(heap, node, name) ==
    IF node = 0 THEN None
    ELSE IF name = heap[node].recipe.name THEN Some(heap[node].recipe)
    ELSE IF StrLess(name, heap[node].recipe.name)
         THEN search_node_swapped(heap, heap[node].right, name)
         ELSE search_node_swapped(heap, heap[node].left, name)

(* BinaryTree::search_node *)
RECURSIVE search_node(_, _, _)
search_node(heap, node, name) ==
    IF node = 0 THEN None
    ELSE IF name = heap[node].recipe.name THEN Some(heap[node].recipe)
    ELSE IF StrLess(name, heap[node].recipe.name)
         THEN search_node(heap, heap[node].left, name)
         ELSE search_node(heap, heap[node].right, name)

(* BinaryTree::search *)
search(tree, name) == search_node(tree[1], tree[2], name)

(* BinaryTree::new: an empty tree, then insert of each recipe in order *)
RECURSIVE BuildFrom(_, _, _)
BuildFrom(tree, ts, i) ==
    IF i > Len(ts) THEN tree ELSE BuildFrom(insert(tree, ts[i]), ts, i + 1)

EmptyTree == <<<<>>, 0>>

BinaryTreeNew(ts) == BuildFrom(EmptyTree, ts, 1)

TreeInsert(recipe) ==
    /\ Len(inserted) < MaxInserts
    /\ LET t == insert(<<nodes, root>>, recipe)
       IN  /\ nodes' = t[1]
           /\ root' = t[2]
    /\ inserted' = Append(inserted, recipe)
    /\ found' = None
    /\ out' = [Idle EXCEPT !.op = "insert", !.name = recipe.name]
    /\ UNCHANGED <<tasks, prev, file, saved>>

TreeSearch(name) ==
    /\ found' = Some(<<name, search(<<nodes, root>>, name)>>)
    /\ out' = [Idle EXCEPT !.op = "search", !.name = name]
    /\ UNCHANGED <<tasks, prev, file, saved, nodes, root, inserted>>

TreeNew(ts) ==
    /\ LET t == BinaryTreeNew(ts)
       IN  /\ nodes' = t[1]
           /\ root' = t[2]
    /\ inserted' = ts
    /\ found' = None
    /\ out' = [Idle EXCEPT !.op = "new"]
    /\ UNCHANGED <<tasks, prev, file, saved>>

InitTree ==
    /\ tasks = <<>>
    /\ prev = <<>>
    /\ file = None
    /\ saved = None
    /\ nodes = <<>>
    /\ root = 0
    /\ inserted = <<>>
    /\ found = None
    /\ out = Idle

DoInsert == \E r \in TreeRecipes : TreeInsert(r)

DoSearch == \E n \in SearchNames : TreeSearch(n)

(* BinaryTree::new is the constructor: it acts once, on no tree. *)
DoNew == out.op = "init" /\ \E ts \in SeqsUpTo(TreeRecipes, MaxInserts) : TreeNew(ts)

NextTree == DoInsert \/ DoSearch \/ DoNew

SpecTree == InitTree /\ [][NextTree]_vars

----------------------------------------------------------------------------
(* Claims about the BinaryTree *)

Tree == <<nodes, root>>

InsertedNames == {inserted[i].name : i \in 1..Len(inserted)}

\* C6: search(name) is some recipe of that name, one that was inserted, for
\* every inserted name and none for every other name; a search recorded since
\* the last insert is what the same search returns now.
C6_SearchFindsExactlyInserted ==
    /\ \A n \in SearchNames :
          LET r == search(Tree, n)
          IN  IF n \in InsertedNames
              THEN r # None /\ r[1].name = n /\ r[1] \in RangeOf(inserted)
              ELSE r = None
    /\ found # None => found[1][2] = search(Tree, found[1][1])

C6_Witness ==
    /\ Len(inserted) = MaxInserts
    /\ Cardinality(InsertedNames) = 3
    /\ found # None
    /\ found[1][2] # None
    /\ found[1][2] # inserted[1]
    /\ out.op = "search"

(* The cells below cell n, n included, following links at most d levels. *)
RECURSIVE Below(_, _, _)
Below(heap, n, d) ==
    IF n = 0 \/ d = 0 THEN {}
    ELSE {n} \cup Below(heap, heap[n].left, d - 1) \cup Below(heap, heap[n].right, d - 1)

Cells == 1..Len(nodes)

Under(n) == Below(nodes, n, Len(nodes))

\* C8: every node's left subtree holds only strictly smaller names and its
\* right subtree only names greater than or equal to its own; the cells form
\* a tree from the root with exactly one cell per insert call, cell i holding
\* the recipe of the i-th insert.
C8_OrderedTreeOneNodePerInsert ==
    /\ \A n \in Cells :
          /\ \A l \in Under(nodes[n].left) :
                StrLess(nodes[l].recipe.name, nodes[n].recipe.name)
          /\ \A r \in Under(nodes[n].right) :
                ~StrLess(nodes[r].recipe.name, nodes[n].recipe.name)
          /\ Under(nodes[n].left) \cap Under(nodes[n].right) = {}
          /\ n \notin Under(nodes[n].left) \cup Under(nodes[n].right)
    /\ Len(nodes) = Len(inserted)
    /\ Under(root) = Cells
    /\ \A n \in Cells : nodes[n].recipe = inserted[n]
    /\ \A n \in Cells \ {root} :
          Cardinality({p \in Cells : nodes[p].left = n}) +
          Cardinality({p \in Cells : nodes[p].right = n}) = 1
    /\ \A p \in Cells : root \notin {nodes[p].left, nodes[p].right}

C8_Witness ==
    /\ Len(inserted) = MaxInserts
    /\ Cardinality(InsertedNames) = 2
    /\ nodes[root].left # 0
    /\ nodes[root].right # 0
    /\ \E n \in Cells : nodes[n].right # 0 /\ nodes[nodes[n].right].recipe.name = nodes[n].recipe.name

\* C9: for every recipe sequence S and name n, BinaryTree::new(S).search(n)
\* equals find_recipe(n) on the registry S: none if absent, else the first
\* entry of S named n.
C9_IndexAgreesWithLinearFind ==
    /\ Tree = BinaryTreeNew(inserted)
    /\ \A n \in SearchNames :
          search(BinaryTreeNew(inserted), n) = find_recipe(inserted, n)

C9_Witness ==
    /\ out.op = "new"
    /\ Len(inserted) = MaxInserts
    /\ \E i, j \in 1..Len(inserted) :
          /\ i < j
          /\ inserted[i].name = inserted[j].name
          /\ inserted[i] # inserted[j]
          /\ search(Tree, inserted[i].name) = Some(inserted[i])

----------------------------------------------------------------------------
(* The rukefile on disk: None (no such file) or Some(lines) of a TOML
   document.  A line is [[tasks]], key = "string", key = [strings], or
   something that is not TOML. *)

MaxTasks == 2

MaxInitTasks == 1

TableLine(key) == [kind |-> "table", key |-> key, val |-> <<>>]

StringLine(key, s) == [kind |-> "string", key |-> key, val |-> s]

ArrayLine(key, a) == [kind |-> "array", key |-> key, val |-> a]

GarbageLine == [kind |-> "garbage", key |-> "", val |-> <<>>]

(* A TOML basic string: the characters between double quotes (the characters
   of the model need no escape). *)
Quote(s) == <<"\"">> \o s \o <<"\"">>

IsQuoted(q) == Len(q) >= 2 /\ q[1] = "\"" /\ q[Len(q)] = "\""

Unquote(q) == SubSeq(q, 2, Len(q) - 1)

QuoteAll(a) == [i \in 1..Len(a) |-> Quote(a[i])]

UnquoteAll(a) == [i \in 1..Len(a) |-> Unquote(a[i])]

(* A wrong encoding of Recipe: an empty arguments list is left out, as
   #[serde(skip_serializing_if = "..is_empty")] would do. *)
SerializeRecipe_skip_empty(r) ==
    <<TableLine("tasks"), StringLine("name", Quote(r.name)),
      StringLine("command", Quote(r.command))>>
    \o (IF r.arguments = None \/ r.arguments = Some(<<>>) THEN <<>>
        ELSE <<ArrayLine("arguments", QuoteAll(r.arguments[1]))>>)

(* #[derive(Serialize)] Recipe as an element of the array of tables `tasks`:
   the fields in declaration order, a None field left out. *)
SerializeRecipe(r) ==
    <<TableLine("tasks"), StringLine("name", Quote(r.name)),
      StringLine("command", Quote(r.command))>>
    \o (IF r.arguments = None THEN <<>>
        ELSE <<ArrayLine("arguments", QuoteAll(r.arguments[1]))>>)

RECURSIVE SerializeFrom(_, _)
SerializeFrom(ts, i) ==
    IF i > Len(ts) THEN <<>> ELSE SerializeRecipe(ts[i]) \o SerializeFrom(ts, i + 1)

(* toml::to_string(&Rukefile): Ok for every registry; an empty Vec is the
   inline array tasks = [] *)
TomlToString(ts) ==
    IF ts = <<>> THEN <<"ok", <<ArrayLine("tasks", <<>>)>>>>
    ELSE <<"ok", SerializeFrom(ts, 1)>>

Partial == [name |-> None, command |-> None, arguments |-> None]

Complete(p) == p.name # None /\ p.command # None

Built(p) == [name |-> p.name[1], command |-> p.command[1], arguments |-> p.arguments]

(* toml::from_str::<Rukefile>, line by line. st = [done, cur, seen]: the
   recipes closed so far, Some(the table being read), whether the key tasks
   was met.  <<"err">> on a line that is not TOML, a key outside a table, a
   key set twice, a value of the wrong type, a table without name or
   command, or a document without tasks. *)
RECURSIVE ParseFrom(_, _, _)
ParseFrom(lines, i, st) ==
    IF i > Len(lines)
    THEN IF ~st.seen THEN <<"err">>
         ELSE IF st.cur = None THEN <<"ok", st.done>>
         ELSE IF Complete(st.cur[1]) THEN <<"ok", Append(st.done, Built(st.cur[1]))>>
         ELSE <<"err">>
    ELSE LET l == lines[i] IN
         IF l.kind = "table" /\ l.key = "tasks"
         THEN IF st.cur = None
              THEN IF st.seen THEN <<"err">>
                   ELSE ParseFrom(lines, i + 1, [st EXCEPT !.cur = Some(Partial), !.seen = TRUE])
              ELSE IF Complete(st.cur[1])
                   THEN ParseFrom(lines, i + 1,
                            [st EXCEPT !.done = Append(st.done, Built(st.cur[1])),
                                       !.cur = Some(Partial)])
                   ELSE <<"err">>
         ELSE IF l.kind = "array" /\ l.key = "tasks"
         THEN IF st.cur = None /\ ~st.seen /\ l.val = <<>>
              THEN ParseFrom(lines, i + 1, [st EXCEPT !.seen = TRUE])
              ELSE <<"err">>
         ELSE IF l.kind = "string" /\ l.key \in {"name", "command"}
         THEN IF st.cur # None /\ IsQuoted(l.val)
                 /\ (IF l.key = "name" THEN st.cur[1].name ELSE st.cur[1].command) = None
              THEN ParseFrom(lines, i + 1,
                       [st EXCEPT !.cur = Some(IF l.key = "name"
                            THEN [st.cur[1] EXCEPT !.name = Some(Unquote(l.val))]
                            ELSE [st.cur[1] EXCEPT !.command = Some(Unquote(l.val))])])
              ELSE <<"err">>
         ELSE IF l.kind = "array" /\ l.key = "arguments"
         THEN IF st.cur # None /\ st.cur[1].arguments = None
                 /\ \A k \in 1..Len(l.val) : IsQuoted(l.val[k])
              THEN ParseFrom(lines, i + 1,
                       [st EXCEPT !.cur = Some([st.cur[1] EXCEPT
                            !.arguments = Some(UnquoteAll(l.val))])])
              ELSE <<"err">>
         ELSE <<"err">>

TomlFromStr(lines) == ParseFrom(lines, 1, [done |-> <<>>, cur |-> None, seen |-> FALSE])

(* Rukefile::new(path): <<"io_error">>, <<"toml_error">> or <<"ok", registry>> *)
RukefileNew(f) ==
    IF f = None THEN <<"io_error">>
    ELSE LET rukefile == TomlFromStr(f[1])
         IN  IF rukefile[1] = "ok" THEN rukefile ELSE <<"toml_error">>

(* What fs::write(filepath, serialized) can do to the file: write it whole, or
   fail having left it alone or having truncated it. *)
WriteOutcomes == {"written", "failed_untouched", "failed_truncated"}

FileAfter(f, serialized, w) ==
    CASE w = "written" -> Some(serialized)
      [] w = "failed_untouched" -> f
      [] w = "failed_truncated" -> Some(<<>>)

SavedAfter(ts, w) ==
    CASE w = "written" -> Some(ts)
      [] w = "failed_untouched" -> saved
      [] w = "failed_truncated" -> None

(* A wrong add_task: a name that exists already is rejected. *)
add_task_unique(ts, name, command) ==
    IF \E i \in 1..Len(ts) : ts[i].name = name THEN ts
    ELSE Append(ts, [name |-> name, command |-> command, arguments |-> None])

(* Rukefile::add_task: self.tasks.push(Recipe { name, command, arguments: None }) *)
add_task(ts, name, command) ==
    Append(ts, [name |-> name, command |-> command, arguments |-> None])

Load ==
    LET r == RukefileNew(file)
    IN  /\ out' = [Idle EXCEPT !.op = "load", !.status = r[1]]
        /\ tasks' = IF r[1] = "ok" THEN r[2] ELSE tasks
        /\ prev' = tasks
        /\ UNCHANGED <<file, saved, nodes, root, inserted, found>>

AddTask(name, command) ==
    /\ Len(tasks) < MaxTasks
    /\ tasks' = add_task(tasks, name, command)
    /\ prev' = tasks
    /\ out' = [Idle EXCEPT !.op = "add_task", !.name = name, !.command = command,
                           !.added = TRUE]
    /\ UNCHANGED <<file, saved, nodes, root, inserted, found>>

(* Rukefile::update_rukefile: toml::to_string(self)? then
   fs::write(..).unwrap(), which panics when the write fails. *)
UpdateRukefile(w) ==
    LET serialized == TomlToString(tasks)
    IN  /\ IF serialized[1] # "ok"
           THEN /\ out' = [Idle EXCEPT !.op = "update", !.status = "ser_error"]
                /\ UNCHANGED <<file, saved>>
           ELSE /\ file' = FileAfter(file, serialized[2], w)
                /\ saved' = SavedAfter(tasks, w)
                /\ out' = [Idle EXCEPT !.op = "update",
                              !.status = IF w = "written" THEN "ok" ELSE "panic",
                              !.panicked = w # "written",
                              !.updateOk = w = "written"]
        /\ prev' = tasks
        /\ UNCHANGED <<tasks, nodes, root, inserted, found>>

(* cli/add.rs add_handler, whole: resolve the path, load, add the task when
   both options are given, save, print.  resolved is what resolve_path gave;
   name and command are the options (None when not given). *)
AddHandler(resolved, name, command, w) ==
    LET base == [Idle EXCEPT !.op = "add_handler"]
        rukefile == RukefileNew(file)
    IN  /\ prev' = tasks
        /\ UNCHANGED <<nodes, root, inserted, found>>
        /\ IF ~resolved
           THEN /\ out' = [base EXCEPT !.status = "returned",
                                       !.diagnostic = "rukefile not found"]
                /\ UNCHANGED <<tasks, file, saved>>
           ELSE IF rukefile[1] # "ok"
           THEN /\ out' = [base EXCEPT !.status = "returned", !.diagnostic = rukefile[1]]
                /\ UNCHANGED <<tasks, file, saved>>
           ELSE IF name # None /\ command # None
           THEN LET added == add_task(rukefile[2], name[1], command[1])
                    serialized == TomlToString(added)
                IN  /\ Len(rukefile[2]) < MaxTasks
                    /\ tasks' = added
                    /\ IF serialized[1] # "ok"
                       THEN /\ out' = [base EXCEPT !.status = "returned", !.added = TRUE,
                                          !.name = name[1], !.command = command[1],
                                          !.diagnostic = "ser_error",
                                          !.successPrinted = TRUE]
                            /\ UNCHANGED <<file, saved>>
                       ELSE /\ file' = FileAfter(file, serialized[2], w)
                            /\ saved' = SavedAfter(added, w)
                            /\ out' = [base EXCEPT
                                          !.status = IF w = "written" THEN "returned" ELSE "panic",
                                          !.panicked = w # "written",
                                          !.added = TRUE,
                                          !.name = name[1], !.command = command[1],
                                          !.updateOk = w = "written",
                                          !.successPrinted = w = "written"]
           ELSE /\ out' = [base EXCEPT !.status = "returned", !.successPrinted = TRUE]
                /\ tasks' = rukefile[2]
                /\ UNCHANGED <<file, saved>>

FileCommands == {<<"a">>, <<"a", " ", "a">>}

FileArgs == {None, Some(<<>>), Some(<<<<"c">>>>)}

FileRecipes == [name : Names, command : {<<"a">>}, arguments : FileArgs]

InitFiles == {None, Some(<<>>), Some(<<GarbageLine>>)}

InitFile ==
    /\ tasks \in SeqsUpTo(FileRecipes, MaxInitTasks)
    /\ prev = tasks
    /\ file \in InitFiles
    /\ saved = None
    /\ nodes = <<>>
    /\ root = 0
    /\ inserted = <<>>
    /\ found = None
    /\ out = Idle

DoAddTask == \E n \in Names, c \in FileCommands : AddTask(n, c)

DoUpdate == \E w \in WriteOutcomes : UpdateRukefile(w)

OptionOf(S) == {None} \cup {Some(v) : v \in S}

DoAddHandler ==
    \E resolved \in BOOLEAN, n \in OptionOf(Names), c \in OptionOf(FileCommands),
       w \in WriteOutcomes : AddHandler(resolved, n, c, w)

NextFile == Load \/ DoAddTask \/ DoUpdate \/ DoAddHandler

SpecFile == InitFile /\ [][NextFile]_vars

----------------------------------------------------------------------------
(* Claims about persistence, add_task and the add command *)

\* C5: update_rukefile(path) then Rukefile::new(path) gives back the registry
\* that was saved: same recipes, same order, equal name, command and
\* arguments, absent arguments and an empty list staying distinct.
C5_SaveLoadRoundTrip ==
    /\ (out.op = "load" /\ saved # None) => (out.status = "ok" /\ tasks = saved[1])
    /\ RukefileNew(Some(TomlToString(tasks)[2])) = <<"ok", tasks>>

C5_Witness ==
    /\ out.op = "load"
    /\ saved # None
    /\ out.status = "ok"
    /\ Len(prev) = 2
    /\ Len(tasks) = 1
    /\ tasks[1].arguments = Some(<<>>)
    /\ prev[2].arguments = None

\* C7: add_task(n, c) keeps every recipe in place and appends exactly one
\* recipe (n, c, arguments absent), also when n exists already; if no recipe
\* was named n, find_recipe(n) afterwards is that recipe.
C7_AddTaskAppends ==
    out.op = "add_task" =>
        LET new == [name |-> out.name, command |-> out.command, arguments |-> None]
        IN  /\ Len(tasks) = Len(prev) + 1
            /\ \A i \in 1..Len(prev) : tasks[i] = prev[i]
            /\ tasks[Len(tasks)] = new
            /\ (\A i \in 1..Len(prev) : prev[i].name # out.name)
                  => find_recipe(tasks, out.name) = Some(new)

C7_Witness ==
    /\ out.op = "add_task"
    /\ Len(prev) = 1
    /\ prev[1].name = out.name
    /\ prev[1].arguments # None
    /\ find_recipe(tasks, out.name) = Some(prev[1])

\* C10: add_handler prints "Task added successfully!" only when a task was
\* appended and update_rukefile returned Ok.
C10_SuccessOnlyWhenAdded ==
    (out.op = "add_handler" /\ out.successPrinted) => (out.added /\ out.updateOk)

====
